---- MODULE Spec2Model ----
(***************************************************************************)
(* Model of the sportsLeagues Pinia store (useSportsLeaguesStore): the     *)
(* league catalog with its derived filter, and the badge cache with the    *)
(* asynchronous fetchBadge / fetchLeagues operations.                      *)
(*                                                                         *)
(* JavaScript strings are finite sequences of one-character strings, so    *)
(* trim, toLowerCase and includes are computed, character by character.    *)
(* An optional value (null / undefined / missing field) is a sequence of   *)
(* length 0 (None) or 1 (Some(v)).                                         *)
(***************************************************************************)
EXTENDS Integers, Sequences, FiniteSets, TLC

\* ------------------------------------------------------------------ bounds
MaxTermLen == 2      \* longest search term typed
MaxLeagues == 2      \* longest all_leagues.php response
MaxSeasons == 2      \* longest search_all_seasons.php response
MaxLoads == 2        \* fetchLeagues calls in flight at once
MaxCalls == 2        \* fetchBadge calls in flight at once

\* ---------------------------------------------------------------- optional
None == <<>>
Some(v) == <<v>>
IsSome(o) == Len(o) = 1
Val(o) == o[1]

\* ----------------------------------------------------------------- strings
SeqsUpTo(S, n) == UNION {[1..k -> S] : k \in 0..n}

\* String.prototype.toLowerCase, on the model's alphabet
LowerChar(c) == IF c = "A" THEN "a" ELSE IF c = "B" THEN "b" ELSE c
toLowerCase(s) == [i \in 1..Len(s) |-> LowerChar(s[i])]

\* String.prototype.trim: drops the whitespace at both ends
IsSpace(c) == c = " "
RECURSIVE TrimStart(_)
TrimStart(s) == IF s # <<>> /\ IsSpace(Head(s)) THEN TrimStart(Tail(s)) ELSE s
RECURSIVE TrimEnd(_)
TrimEnd(s) ==
  IF s # <<>> /\ IsSpace(s[Len(s)]) THEN TrimEnd(SubSeq(s, 1, Len(s) - 1)) ELSE s
trim(s) == TrimEnd(TrimStart(s))

\* String.prototype.includes: t occurs in s as a contiguous substring
includes(s, t) ==
  \E i \in 0..(Len(s) - Len(t)) : SubSeq(s, i + 1, i + Len(t)) = t

\* JavaScript truthiness of a string | null | undefined value
Truthy(o) == IsSome(o) /\ Val(o) # <<>>

\* ------------------------------------------------------------ catalog data
\* League records as the API returns them (strLeagueAlternate may be null)
League(id, name, alt, sport) ==
  [idLeague |-> id, strLeague |-> name, strLeagueAlternate |-> alt, strSport |-> sport]

\* a league without alternate name, one whose alternate name alone holds an
\* "a", one with an empty alternate name and an empty sport whose id repeats
\* the first one's, and one of another sport
LeaguePool ==
  { League("1", <<"A", "b">>, None, <<"S">>),
    League("2", <<"b", "b">>, Some(<<"a", " ">>), <<"S">>),
    League("1", <<"b", " ", "a">>, Some(<<>>), <<>>),
    League("3", <<"b">>, Some(<<"B">>), <<"B">>) }

\* all_leagues.php bodies: the leagues field is missing/null, or a list
LeaguesResponses == {None} \cup {Some(ls) : ls \in SeqsUpTo(LeaguePool, MaxLeagues)}

TermChars == {"A", " "}
Terms == SeqsUpTo(TermChars, MaxTermLen)
Sports == {None, Some(<<>>), Some(<<"S">>), Some(<<"B">>)}

\* Rejections of $fetch: Error objects with a message and an HTTP status,
\* or a thrown value that is not an Error
M429 == <<"4", "2", "9">>
M500 == <<"5", "0", "0">>
\* the message of a 500 response whose text (request URL, host) contains 429
M500At429 == <<"4", "2", "9", ":", "5", "0", "0">>
FetchErrors ==
  { [isError |-> TRUE, message |-> M429, status |-> 429, origin |-> "fetch"],
    [isError |-> TRUE, message |-> M500, status |-> 500, origin |-> "fetch"],
    [isError |-> TRUE, message |-> M500At429, status |-> 500, origin |-> "fetch"],
    [isError |-> FALSE, message |-> <<>>, status |-> 0, origin |-> "fetch"] }
\* new Error(message), created by the store
NewError(m) == [isError |-> TRUE, message |-> m, status |-> 0, origin |-> "store"]
FailedToFetchLeagues == <<"F", "L">>
FailedToFetchBadge == <<"F", "B">>

\* Badge URLs and season records of search_all_seasons.php (strBadge is
\* optional; the season label is not read by the store)
U1 == <<"u">>
U2 == <<"v">>
BadgeFields == {None, Some(<<>>), Some(U1), Some(U2)}
Seasons == {[strBadge |-> b] : b \in BadgeFields}
SeasonsResponses == {None} \cup {Some(ss) : ss \in SeqsUpTo(Seasons, MaxSeasons)}
LeagueIds == {"1", "2"}

VARIABLES
  leagues,        \* ref<League[]>
  loading,        \* ref<boolean>
  error,          \* ref<string | null>
  searchTerm,     \* ref<string>
  selectedSport,  \* ref<string | null>
  badgeCache,     \* useLocalStorage 'league-badges': id -> URL, None if absent
  stored,         \* the localStorage item 'league-badges' behind badgeCache
  pendingLoads,   \* fetchLeagues calls suspended at their await, in start order
  card,           \* the refs of the LeagueCard of league CardId
  latestClick,    \* history: how the handleCardClick call started last stands
  calls,          \* fetchBadge calls suspended at their await, in start order
  outcome,        \* history: id -> how the last fetchBadge call that was
                  \*          suspended for it ended: "none", "value", "null", "threw"
  returned,       \* history: id -> the non-null values that cache-missing
                  \*          fetchBadge calls returned
  ev              \* history: what the last step did and what its caller saw
catalogVars == <<leagues, loading, error, searchTerm, selectedSport, pendingLoads>>
badgeVars == <<badgeCache, stored, calls, outcome, returned>>
cardVars == <<card, latestClick>>
vars == <<leagues, loading, error, searchTerm, selectedSport, badgeCache, stored,
          pendingLoads, card, latestClick, calls, outcome, returned, ev>>

\* -------------------------------------------------------- filteredLeagues
\* mutant: the alternate name is not compared
MatchesTerm_NameOnly(league, term) == includes(toLowerCase(league.strLeague), term)

\* the callback of the search filter
MatchesTerm(league, term) ==
  \/ includes(toLowerCase(league.strLeague), term)
  \/ /\ IsSome(league.strLeagueAlternate)
     /\ includes(toLowerCase(Val(league.strLeagueAlternate)), term)

RECURSIVE filterBySearch(_, _)
filterBySearch(xs, term) ==
  IF xs = <<>> THEN <<>>
  ELSE IF MatchesTerm(Head(xs), term)
       THEN <<Head(xs)>> \o filterBySearch(Tail(xs), term)
       ELSE filterBySearch(Tail(xs), term)

\* mutant: the kept elements come out in reverse order
RECURSIVE filterBySport_Reversed(_, _)
filterBySport_Reversed(xs, sport) ==
  IF xs = <<>> THEN <<>>
  ELSE IF Head(xs).strSport = sport
       THEN filterBySport_Reversed(Tail(xs), sport) \o <<Head(xs)>>
       ELSE filterBySport_Reversed(Tail(xs), sport)

RECURSIVE filterBySport(_, _)
filterBySport(xs, sport) ==
  IF xs = <<>> THEN <<>>
  ELSE IF Head(xs).strSport = sport
       THEN <<Head(xs)>> \o filterBySport(Tail(xs), sport)
       ELSE filterBySport(Tail(xs), sport)

FilteredOf(ls, t, s) ==
  LET bySearch == IF trim(t) # <<>> THEN filterBySearch(ls, toLowerCase(t)) ELSE ls
  IN  IF Truthy(s) THEN filterBySport(bySearch, Val(s)) ELSE bySearch

filteredLeagues == FilteredOf(leagues, searchTerm, selectedSport)

\* -------------------------------------------------------- availableSports
\* the UTF-16 code unit of a character of the model's alphabet
CodeUnit(c) ==
  CASE c = " " -> 32
    [] c = "A" -> 65
    [] c = "B" -> 66
    [] c = "S" -> 83
    [] c = "a" -> 97
    [] c = "b" -> 98
    [] OTHER -> 0

\* a < b as Array.prototype.sort compares strings without a comparator
RECURSIVE StrLess(_, _)
StrLess(a, b) ==
  IF b = <<>> THEN FALSE
  ELSE IF a = <<>> THEN TRUE
  ELSE IF CodeUnit(Head(a)) # CodeUnit(Head(b))
       THEN CodeUnit(Head(a)) < CodeUnit(Head(b))
       ELSE StrLess(Tail(a), Tail(b))

\* sports.add(league.strSport) for each league with a truthy strSport; a Set
\* keeps the order of first insertion
RECURSIVE AddSports(_, _)
AddSports(ls, sports) ==
  IF ls = <<>> THEN sports
  ELSE LET sp == Head(ls).strSport
           has == \E i \in 1..Len(sports) : sports[i] = sp
       IN  AddSports(Tail(ls),
                     IF sp # <<>> /\ ~has THEN Append(sports, sp) ELSE sports)

RECURSIVE InsertSorted(_, _)
InsertSorted(x, xs) ==
  IF xs = <<>> THEN <<x>>
  ELSE IF StrLess(x, Head(xs)) THEN <<x>> \o xs
       ELSE <<Head(xs)>> \o InsertSorted(x, Tail(xs))

RECURSIVE InsertAll(_, _)
InsertAll(xs, sorted) ==
  IF xs = <<>> THEN sorted ELSE InsertAll(Tail(xs), InsertSorted(Head(xs), sorted))

\* mutant: the array is returned as the Set yields it
sort_Omitted(xs) == xs

\* Array.prototype.sort()
sort(xs) == InsertAll(xs, <<>>)

AvailableOf(ls) == sort(AddSports(ls, <<>>))

availableSports == AvailableOf(leagues)

\* ------------------------------------------------------------------ events
NoError == [isError |-> FALSE, message |-> <<>>, status |-> 0, origin |-> "none"]
\* stale: the completing fetchLeagues call had been overtaken by a later one;
\* again: the completion repeats the previous one (same id and seasons for
\* fetchBadge, the list already held for fetchLeagues); after: "restart" on a
\* hit that directly follows a restart
Event(op) ==
  [op |-> op, id |-> "", response |-> None, result |-> None,
   raised |-> NoError, thrown |-> NoError, fetches |-> 0, toasts |-> 0,
   stale |-> FALSE, again |-> FALSE, after |-> ""]

\* the league whose card is modelled
CardId == "1"
\* showModal, badgeUrl, badgeLoading, badgeError as the component creates them
NewCard == [showModal |-> FALSE, badgeUrl |-> None, badgeLoading |-> FALSE,
            badgeError |-> None]
\* the handleCardClick call started last: none yet, suspended, or over with
\* what store.fetchBadge gave it
NoClick == [state |-> "none", url |-> None, error |-> None]
ClickPending == [state |-> "pending", url |-> None, error |-> None]
ClickDone(u, e) == [state |-> "done", url |-> u, error |-> e]

Init ==
  /\ leagues = <<>>
  /\ loading = FALSE
  /\ error = None
  /\ searchTerm = <<>>
  /\ selectedSport = None
  /\ badgeCache = [id \in LeagueIds |-> None]
  /\ stored = [id \in LeagueIds |-> None]
  /\ pendingLoads = <<>>
  /\ card = NewCard
  /\ latestClick = NoClick
  /\ calls = <<>>
  /\ outcome = [id \in LeagueIds |-> "none"]
  /\ returned = [id \in LeagueIds |-> {}]
  /\ ev = Event("init")

\* ----------------------------------------------------------- catalog steps
\* the filter inputs are writable refs of the store
SetSearchTerm(t) ==
  /\ searchTerm' = t
  /\ ev' = Event("setSearchTerm")
  /\ UNCHANGED <<leagues, loading, error, selectedSport, pendingLoads, cardVars, badgeVars>>

SetSport(s) ==
  /\ selectedSport' = s
  /\ ev' = Event("setSport")
  /\ UNCHANGED <<leagues, loading, error, searchTerm, pendingLoads, cardVars, badgeVars>>

\* the message a catch block derives from what was thrown
ErrorMessage(err, fallback) == IF err.isError THEN err.message ELSE fallback
\* toast.add is called once when the message includes '429'
ToastsFor(msg) == IF includes(msg, M429) THEN 1 ELSE 0

\* a fetchLeagues call suspended at its await; overtaken records that a call
\* started after it has completed already
NewLoad == [overtaken |-> FALSE]

RemoveAt(q, k) == SubSeq(q, 1, k - 1) \o SubSeq(q, k + 1, Len(q))

\* the suspended calls left when the k-th completes
LoadsAfter(q, k) ==
  [j \in 1..(Len(q) - 1) |-> IF j < k THEN [overtaken |-> TRUE] ELSE q[j + 1]]

\* fetchLeagues up to its await
FetchLeaguesStart ==
  /\ Len(pendingLoads) < MaxLoads
  /\ loading' = TRUE
  /\ error' = None
  /\ pendingLoads' = Append(pendingLoads, NewLoad)
  /\ ev' = Event("loadStart")
  /\ UNCHANGED <<leagues, searchTerm, selectedSport, cardVars, badgeVars>>

\* mutant: the response of a call that a later-started call has overtaken is
\* dropped
LeaguesAfterResolve_DropsStale(old, call, response) ==
  IF call.overtaken THEN old
  ELSE IF IsSome(response) THEN Val(response) ELSE <<>>

\* mutant: a body without a list leaves the previous list in place
LeaguesAfterResolve_KeepsOnMissing(old, call, response) ==
  IF IsSome(response) THEN Val(response) ELSE old

\* mutant: the loaded leagues are added to the list
LeaguesAfterResolve_Merges(old, call, response) ==
  IF IsSome(response) THEN old \o Val(response) ELSE <<>>

\* mutant: the loaded leagues are stored newest first
LeaguesAfterResolve_Reverses(old, call, response) ==
  IF IsSome(response)
  THEN [i \in 1..Len(Val(response)) |-> Val(response)[Len(Val(response)) + 1 - i]]
  ELSE <<>>

\* mutant: of the leagues of the response that share an id, one is kept
LeaguesAfterResolve_Dedupes(old, call, response) ==
  IF IsSome(response)
  THEN SelectSeq(Val(response),
                 LAMBDA L : L = (CHOOSE M \in {Val(response)[i] : i \in 1..Len(Val(response))} :
                                   M.idLeague = L.idLeague))
  ELSE <<>>

\* leagues.value = response.leagues, or [] when the body has none
LeaguesAfterResolve(old, call, response) ==
  IF IsSome(response) THEN Val(response) ELSE <<>>

\* the k-th suspended fetchLeagues resumes with a response body
FetchLeaguesResolve(k, response) ==
  /\ k \in 1..Len(pendingLoads)
  /\ leagues' = LeaguesAfterResolve(leagues, pendingLoads[k], response)
  /\ loading' = FALSE
  /\ pendingLoads' = LoadsAfter(pendingLoads, k)
  /\ ev' = [Event("loadOk") EXCEPT !.response = response,
             !.stale = pendingLoads[k].overtaken,
             !.again = (leagues # <<>> /\ response = Some(leagues))]
  /\ UNCHANGED <<error, searchTerm, selectedSport, cardVars, badgeVars>>

\* mutant: the catch block rethrows what it caught
LoadThrown_Rethrows(err) == err

\* the catch block of fetchLeagues has no throw: the call resolves
LoadThrown(err) == NoError

\* mutant: the catch block empties the list
LeaguesAfterReject_Empties(old, err) == <<>>

\* the catch block does not assign leagues
LeaguesAfterReject(old, err) == old

\* the k-th suspended fetchLeagues resumes with a rejection
FetchLeaguesReject(k, err) ==
  /\ k \in 1..Len(pendingLoads)
  /\ leagues' = LeaguesAfterReject(leagues, err)
  /\ error' = Some(ErrorMessage(err, FailedToFetchLeagues))
  /\ loading' = FALSE
  /\ pendingLoads' = LoadsAfter(pendingLoads, k)
  /\ ev' = [Event("loadFail") EXCEPT !.raised = err, !.thrown = LoadThrown(err),
             !.toasts = ToastsFor(ErrorMessage(err, FailedToFetchLeagues))]
  /\ UNCHANGED <<searchTerm, selectedSport, cardVars, badgeVars>>

NextCatalog ==
  \/ \E t \in Terms : SetSearchTerm(t)
  \/ \E s \in Sports : SetSport(s)
  \/ FetchLeaguesStart
  \/ \E k \in 1..MaxLoads, r \in LeaguesResponses : FetchLeaguesResolve(k, r)
  \/ \E k \in 1..MaxLoads, e \in FetchErrors : FetchLeaguesReject(k, e)

SpecCatalog == Init /\ [][NextCatalog]_vars

\* the steps of fetchLeagues alone
NextLoad ==
  \/ FetchLeaguesStart
  \/ \E k \in 1..MaxLoads, r \in LeaguesResponses : FetchLeaguesResolve(k, r)
  \/ \E k \in 1..MaxLoads, e \in FetchErrors : FetchLeaguesReject(k, e)

SpecLoad == Init /\ [][NextLoad]_vars

\* the steps that decide leagues, searchTerm and selectedSport, the inputs of
\* the derived lists (a rejected load changes none of the three), with the
\* loads made one at a time
NextFilter ==
  \/ \E t \in Terms : SetSearchTerm(t)
  \/ \E s \in Sports : SetSport(s)
  \/ pendingLoads = <<>> /\ FetchLeaguesStart
  \/ \E r \in LeaguesResponses : FetchLeaguesResolve(1, r)

SpecFilter == Init /\ [][NextFilter]_vars

\* ------------------------------------------------------------- badge steps
\* mutant: the cache check is skipped
CacheHit_Skipped(cache, id) == FALSE

\* if (badgeCache.value[leagueId])
CacheHit(cache, id) == Truthy(cache[id])

\* mutant: the request is issued twice
NewCall_Twice(id) == [id |-> id, fetches |-> 2]

\* a call suspended at await api.fetchFromAPI(...): one request was issued
NewCall(id) == [id |-> id, fetches |-> 1]

\* mutant: the first season is taken for the most recent one
LatestSeason_First(ss) == ss[1]

\* response.seasons[response.seasons.length - 1]
LatestSeason(ss) == ss[Len(ss)]

\* the value the try block returns for a response body
BadgeOf(response) ==
  IF IsSome(response) /\ Len(Val(response)) > 0
  THEN IF Truthy(LatestSeason(Val(response)).strBadge)
       THEN LatestSeason(Val(response)).strBadge
       ELSE None
  ELSE None

\* mutant: the strBadge field of the last season is stored unchecked
CacheAfterResolve_Unguarded(cache, id, response) ==
  IF IsSome(response) /\ Len(Val(response)) > 0
  THEN [cache EXCEPT ![id] = Val(response)[Len(Val(response))].strBadge]
  ELSE cache

\* mutant: a write to an id that has an entry appends to the entry
CacheAfterResolve_Appends(cache, id, response) ==
  IF IsSome(BadgeOf(response))
  THEN [cache EXCEPT ![id] = IF Truthy(@) THEN Some(Val(@) \o Val(BadgeOf(response)))
                                         ELSE BadgeOf(response)]
  ELSE cache

\* mutant: the write replaces the cache object by one holding the new entry
CacheAfterResolve_ReplacesAll(cache, id, response) ==
  IF IsSome(BadgeOf(response))
  THEN [i \in DOMAIN cache |-> IF i = id THEN BadgeOf(response) ELSE None]
  ELSE cache

\* mutant: the entry is written under the first league id, not the call's
CacheAfterResolve_WrongKey(cache, id, response) ==
  IF IsSome(BadgeOf(response)) THEN [cache EXCEPT !["1"] = BadgeOf(response)] ELSE cache

\* badgeCache.value[leagueId] = badgeUrl, only on the path that found a badge
CacheAfterResolve(cache, id, response) ==
  IF IsSome(BadgeOf(response)) THEN [cache EXCEPT ![id] = BadgeOf(response)] ELSE cache

\* mutant: a failure resets the cache
CacheAfterReject_Clears(cache, id, err) == [i \in DOMAIN cache |-> None]

\* the catch block does not touch the cache
CacheAfterReject(cache, id, err) == cache

\* what the catch block throws
Thrown(err) == NewError(ErrorMessage(err, FailedToFetchBadge))

\* fetchBadge(leagueId) up to its first await: the cache check, then either
\* the early return or the request
StoreFetchBadge(id) ==
  /\ IF CacheHit(badgeCache, id)
     THEN /\ ev' = [Event("hit") EXCEPT !.id = id, !.result = badgeCache[id],
                     !.after = IF ev.op = "restart" THEN "restart" ELSE ""]
          /\ UNCHANGED calls
     ELSE /\ Len(calls) < MaxCalls
          /\ calls' = Append(calls, NewCall(id))
          /\ ev' = [Event("miss") EXCEPT !.id = id, !.fetches = NewCall(id).fetches]
  /\ UNCHANGED <<badgeCache, stored, outcome, returned, catalogVars>>

\* useLocalStorage writes the whole object to the item when the ref has
\* changed; a setItem that fails (quota, storage disabled) leaves the item
StoredAfterWrite(item, cache, written, saved) ==
  IF saved /\ written # cache THEN written ELSE item

\* the k-th suspended fetchBadge resumes with a response body; saved tells
\* whether localStorage accepts the write that follows a change of the cache
StoreResolve(k, response, saved) ==
  /\ k \in 1..Len(calls)
  /\ LET c == calls[k]
         result == BadgeOf(response)
     IN  /\ badgeCache' = CacheAfterResolve(badgeCache, c.id, response)
         /\ stored' = StoredAfterWrite(stored, badgeCache,
                                       CacheAfterResolve(badgeCache, c.id, response), saved)
         /\ calls' = RemoveAt(calls, k)
         /\ outcome' = [outcome EXCEPT ![c.id] = IF IsSome(result) THEN "value" ELSE "null"]
         /\ returned' = IF IsSome(result)
                        THEN [returned EXCEPT ![c.id] = @ \cup {Val(result)}]
                        ELSE returned
         /\ ev' = [Event("resolve") EXCEPT !.id = c.id, !.response = response,
                    !.result = result, !.fetches = c.fetches,
                    !.again = (ev.op = "resolve" /\ ev.id = c.id
                                 /\ ev.response = response)]
  /\ UNCHANGED catalogVars

\* the k-th suspended fetchBadge resumes with a rejection
StoreReject(k, err) ==
  /\ k \in 1..Len(calls)
  /\ LET c == calls[k]
     IN  /\ badgeCache' = CacheAfterReject(badgeCache, c.id, err)
         /\ calls' = RemoveAt(calls, k)
         /\ outcome' = [outcome EXCEPT ![c.id] = "threw"]
         /\ ev' = [Event("reject") EXCEPT !.id = c.id, !.raised = err,
                    !.thrown = Thrown(err), !.fetches = c.fetches,
                    !.toasts = ToastsFor(ErrorMessage(err, FailedToFetchBadge))]
  /\ UNCHANGED <<stored, returned, catalogVars>>

\* useLeagueBadge's fetchBadge on a response: seasons = response.seasons ?? [],
\* badge = seasons[0]?.strBadge ?? null (only null and undefined become null)
useLeagueBadge_fetchBadge(response) ==
  LET seasons == IF IsSome(response) THEN Val(response) ELSE <<>>
  IN  [badge |-> IF Len(seasons) > 0 /\ IsSome(seasons[1].strBadge)
                 THEN seasons[1].strBadge
                 ELSE None,
       seasons |-> seasons]

\* useLeagueBadge's fetchBadge on a rejected fetch: logged, and an empty
\* result is returned; nothing reaches the caller as an error
useLeagueBadge_returnedOnError(err) == [badge |-> None, seasons |-> <<>>]
useLeagueBadge_thrown(err) == NoError

\* the store's fetchBadge called by a consumer other than the modelled card
FetchBadge(id) == StoreFetchBadge(id) /\ UNCHANGED cardVars
FetchBadgeResolve(k, response) == StoreResolve(k, response, TRUE) /\ UNCHANGED cardVars
FetchBadgeResolveUnsaved(k, response) ==
  StoreResolve(k, response, FALSE) /\ UNCHANGED cardVars
FetchBadgeReject(k, err) == StoreReject(k, err) /\ UNCHANGED cardVars

NextBadge ==
  \/ \E id \in LeagueIds : FetchBadge(id)
  \/ \E k \in 1..MaxCalls, r \in SeasonsResponses : FetchBadgeResolve(k, r)
  \/ \E k \in 1..MaxCalls, e \in FetchErrors : FetchBadgeReject(k, e)

SpecBadge == Init /\ [][NextBadge]_vars

\* ------------------------------------------------------------- LeagueCard
FailedToLoadBadge == <<"L", "B">>

\* handleCardClick up to its await; on a cache hit the awaited promise is
\* already resolved and the handler runs to its end before any other handler
HandleCardClick ==
  /\ StoreFetchBadge(CardId)
  /\ card' = IF CacheHit(badgeCache, CardId)
             THEN [showModal |-> TRUE, badgeUrl |-> badgeCache[CardId],
                   badgeLoading |-> FALSE, badgeError |-> None]
             ELSE [showModal |-> TRUE, badgeUrl |-> None,
                   badgeLoading |-> TRUE, badgeError |-> None]
  /\ latestClick' = IF CacheHit(badgeCache, CardId)
                    THEN ClickDone(badgeCache[CardId], None)
                    ELSE ClickPending

\* mutant: closing the modal abandons the card's suspended calls
CallsAfterClose_Cancelled(q) == <<>>

\* closing the modal only emits update:open; the suspended calls stay
CallsAfterClose(q) == q

\* BadgeModal closes: update:open false reaches v-model:open="showModal"
HandleClose ==
  /\ card.showModal
  /\ card' = [card EXCEPT !.showModal = FALSE]
  /\ calls' = CallsAfterClose(calls)
  /\ ev' = Event("close")
  /\ UNCHANGED <<latestClick, badgeCache, stored, outcome, returned, catalogVars>>

\* handleCardClick after store.fetchBadge resolved: badgeUrl, then finally
CardResolve(k, response) ==
  /\ StoreResolve(k, response, TRUE)
  /\ card' = [card EXCEPT !.badgeUrl = BadgeOf(response), !.badgeLoading = FALSE]
  /\ latestClick' = IF latestClick.state = "pending" /\ k = Len(calls)
                    THEN ClickDone(BadgeOf(response), None)
                    ELSE latestClick

\* handleCardClick after store.fetchBadge threw: badgeError, then finally
CardReject(k, err) ==
  /\ StoreReject(k, err)
  /\ card' = [card EXCEPT
               !.badgeError = Some(ErrorMessage(Thrown(err), FailedToLoadBadge)),
               !.badgeLoading = FALSE]
  /\ latestClick' = IF latestClick.state = "pending" /\ k = Len(calls)
                    THEN ClickDone(None, Some(ErrorMessage(Thrown(err), FailedToLoadBadge)))
                    ELSE latestClick

NextCard ==
  \/ HandleCardClick
  \/ HandleClose
  \/ \E k \in 1..MaxCalls, r \in SeasonsResponses : CardResolve(k, r)
  \/ \E k \in 1..MaxCalls, e \in FetchErrors : CardReject(k, e)

SpecCard == Init /\ [][NextCard]_vars

\* ---------------------------------------------------------------- restart
\* mutant: the cache is a plain ref({}), created empty with the store
CacheAfterRestart_Fresh(cache) == [id \in DOMAIN cache |-> None]

\* useLocalStorage('league-badges', {}) reads back what the last session stored
CacheAfterRestart(cache) == cache

\* the application is reloaded: the store and the components are created
\* anew and the calls of the old page are gone; only localStorage survives
Restart ==
  /\ leagues' = <<>>
  /\ loading' = FALSE
  /\ error' = None
  /\ searchTerm' = <<>>
  /\ selectedSport' = None
  /\ pendingLoads' = <<>>
  /\ card' = NewCard
  /\ latestClick' = NoClick
  /\ calls' = <<>>
  /\ badgeCache' = CacheAfterRestart(stored)
  /\ ev' = Event("restart")
  /\ UNCHANGED <<stored, outcome, returned>>

NextRestart == NextBadge \/ Restart

SpecRestart == Init /\ [][NextRestart]_vars

\* the badge steps with a localStorage that accepts every write of the
\* session or (full, disabled) refuses every one
NextStorage ==
  \/ \E id \in LeagueIds : FetchBadge(id)
  \/ /\ stored = badgeCache
     /\ \E k \in 1..MaxCalls, r \in SeasonsResponses : FetchBadgeResolve(k, r)
  \/ /\ \A id \in LeagueIds : stored[id] = None
     /\ \E k \in 1..MaxCalls, r \in SeasonsResponses : FetchBadgeResolveUnsaved(k, r)
  \/ \E k \in 1..MaxCalls, e \in FetchErrors : FetchBadgeReject(k, e)

SpecStorage == Init /\ [][NextStorage]_vars

\* ------------------------------------------------- the store's two fetches
\* fetchLeagues and fetchBadge share no state: the behaviours in which only
\* one of the two has left a trace at any time
BadgeIdle ==
  /\ calls = <<>>
  /\ \A id \in LeagueIds : ~IsSome(badgeCache[id]) /\ outcome[id] = "none"
CatalogIdle == leagues = <<>> /\ pendingLoads = <<>> /\ error = None /\ ~loading

NextFetches ==
  \/ BadgeIdle /\ FetchLeaguesStart
  \/ BadgeIdle /\ \E k \in 1..MaxLoads, r \in LeaguesResponses : FetchLeaguesResolve(k, r)
  \/ BadgeIdle /\ \E k \in 1..MaxLoads, e \in FetchErrors : FetchLeaguesReject(k, e)
  \/ CatalogIdle /\ \E id \in LeagueIds : FetchBadge(id)
  \/ CatalogIdle /\ \E k \in 1..MaxCalls, r \in SeasonsResponses : FetchBadgeResolve(k, r)
  \/ CatalogIdle /\ \E k \in 1..MaxCalls, e \in FetchErrors : FetchBadgeReject(k, e)

SpecFetches == Init /\ [][NextFetches]_vars

Next == NextCatalog \/ NextCard \/ Restart

Spec == Init /\ [][Next]_vars

\* ================================================================== claims
IsInvocation(e, id) == e.op \in {"hit", "miss"} /\ e.id = id

\* C1: whenever the cache holds a URL for an id, a fetchBadge(id) invoked in
\* that state returns exactly the cached URL at once, issues no seasons
\* request, suspends no call and leaves the cache alone.
C1_CacheHitNoRequest ==
  [][\A id \in LeagueIds :
       (Truthy(badgeCache[id]) /\ IsInvocation(ev', id))
         => /\ ev'.op = "hit"
            /\ ev'.result = badgeCache[id]
            /\ ev'.fetches = 0
            /\ calls' = calls
            /\ badgeCache' = badgeCache]_vars

C1_Witness == ev.op = "hit" /\ Truthy(badgeCache[ev.id]) /\ ev.result = badgeCache[ev.id]

\* C2 (as claimed): once a cache-missing fetchBadge(id) has returned a
\* non-null v, the cache entry for id is v from then on, and every later
\* fetchBadge(id) returns v without a request.
C2_RoundTripForever ==
  \A id \in LeagueIds : \A v \in returned[id] :
    /\ badgeCache[id] = Some(v)
    /\ IsInvocation(ev, id) => (ev.op = "hit" /\ ev.result = Some(v) /\ ev.fetches = 0)

\* a response from which the store reads no badge
NoBadgeIn(response) ==
  \/ ~IsSome(response)
  \/ Val(response) = <<>>
  \/ ~Truthy(Val(response)[Len(Val(response))].strBadge)

\* C3: a call resumed with no seasons, or with a last season without a
\* badge, returns null and writes nothing, so the cache is as it was (an
\* empty lookup stays empty); and a fetchBadge(id) invoked while the lookup
\* for id is empty issues a request even though an earlier call for id
\* returned null.
C3_NegativeNotCached ==
  [][/\ (ev'.op = "resolve" /\ NoBadgeIn(ev'.response))
          => (ev'.result = None /\ badgeCache' = badgeCache)
     /\ \A id \in LeagueIds :
          (outcome[id] = "null" /\ ~Truthy(badgeCache[id]) /\ IsInvocation(ev', id))
            => (ev'.op = "miss" /\ ev'.fetches = 1 /\ Len(calls') = Len(calls) + 1)]_vars

C3_Witness == ev.op = "miss" /\ outcome[ev.id] = "null" /\ ~Truthy(badgeCache[ev.id])

\* ----------------------------------------------------------- filter claims
Appears(L, xs) == \E j \in 1..Len(xs) : xs[j] = L

\* t occurs in name as a substring when letter case is ignored
MatchesIgnoringCase(name, t) ==
  \E i \in 0..(Len(name) - Len(t)) :
    \A j \in 1..Len(t) : LowerChar(name[i + j]) = LowerChar(t[j])

TermAdmits(L, t) ==
  \/ trim(t) = <<>>
  \/ MatchesIgnoringCase(L.strLeague, t)
  \/ IsSome(L.strLeagueAlternate) /\ MatchesIgnoringCase(Val(L.strLeagueAlternate), t)

\* C4 (as claimed): a loaded league appears in filteredLeagues iff (the sport
\* filter is null or equals its strSport) and (the term is blank or matches
\* its name or alternate name, ignoring case).
C4_MembershipNullOnly ==
  \A i \in 1..Len(leagues) :
    Appears(leagues[i], filteredLeagues)
      <=> /\ (selectedSport = None \/ leagues[i].strSport = Val(selectedSport))
          /\ TermAdmits(leagues[i], searchTerm)

\* C4 (amended): as above, with the empty string as a sport filter also
\* meaning "no filter".
C4_Membership ==
  \A i \in 1..Len(leagues) :
    Appears(leagues[i], filteredLeagues)
      <=> /\ (~Truthy(selectedSport) \/ leagues[i].strSport = Val(selectedSport))
          /\ TermAdmits(leagues[i], searchTerm)

C4_Witness ==
  /\ selectedSport = Some(<<>>)
  /\ trim(searchTerm) # <<>>
  /\ Len(filteredLeagues) = 1
  /\ Len(leagues) = 2

\* C5 (as claimed): filtering with the stored term gives the same list as
\* filtering with the trimmed term.
C5_TrimmedTermSameResult ==
  FilteredOf(leagues, searchTerm, selectedSport)
    = FilteredOf(leagues, trim(searchTerm), selectedSport)

RECURSIVE IsSubsequence(_, _)
IsSubsequence(a, b) ==
  IF a = <<>> THEN TRUE
  ELSE IF b = <<>> THEN FALSE
  ELSE IF Head(a) = Head(b) THEN IsSubsequence(Tail(a), Tail(b))
  ELSE IsSubsequence(a, Tail(b))

\* C6: in every reachable state filteredLeagues is obtained from leagues by
\* deleting elements: nothing foreign, nothing repeated more often, nothing
\* reordered.
C6_OrderPreservingSubsequence == IsSubsequence(filteredLeagues, leagues)

C6_Witness ==
  /\ Len(filteredLeagues) = 2
  /\ filteredLeagues[1] # filteredLeagues[2]
  /\ Truthy(selectedSport)
  /\ trim(searchTerm) # <<>>

C8_ErrorUnmodified ==
  [][ev'.op = "reject" => ev'.thrown = ev'.raised]_vars

\* C9: a call resumed with a rejection leaves every cache entry as it was,
\* and a fetchBadge(id) invoked while the lookup for id is empty issues a
\* request even though an earlier call for id failed.
C9_FailureLeavesCache ==
  [][/\ ev'.op = "reject" => badgeCache' = badgeCache
     /\ \A id \in LeagueIds :
          (outcome[id] = "threw" /\ ~Truthy(badgeCache[id]) /\ IsInvocation(ev', id))
            => (ev'.op = "miss" /\ ev'.fetches = 1 /\ Len(calls') = Len(calls) + 1)]_vars

C9_Witness ==
  /\ ev.op = "miss"
  /\ outcome[ev.id] = "threw"
  /\ \E id \in LeagueIds : id # ev.id /\ Truthy(badgeCache[id])

\* C10: a fetchBadge call that missed the cache has issued exactly one
\* request when it is suspended, and still exactly one when it returns or
\* throws, whatever the outcome.
C10_ExactlyOneRequest ==
  [][/\ ev'.op \in {"miss", "resolve", "reject"} => ev'.fetches = 1
     /\ \A k \in 1..Len(calls') : calls'[k].fetches = 1]_vars

C10_Witness ==
  /\ ev.op \in {"resolve", "reject"}
  /\ ev.fetches = 1
  /\ \E id \in LeagueIds : outcome[id] \in {"null", "threw"}
  /\ \E id \in LeagueIds : returned[id] # {}

\* C11 (as claimed): the cache holds at most one entry per league id, and an
\* entry, once written, is never overwritten with a different value by any
\* later step, overlapping fetchBadge calls included.
C11_EntryNeverOverwritten ==
  [][\A id \in LeagueIds :
       Truthy(badgeCache[id]) => badgeCache'[id] = badgeCache[id]]_vars


\* C12: a cache entry is durable. No step removes or empties an entry that is
\* present; a restart resets leagues, searchTerm, selectedSport, loading and
\* error, drops the suspended calls and keeps every entry; and a fetchBadge
\* invoked right after a restart for an id with an entry is a hit that
\* returns the entry without a request.
C12_EntryDurable ==
  [][/\ \A id \in LeagueIds : Truthy(badgeCache[id]) => Truthy(badgeCache'[id])
     /\ ev'.op = "restart"
          => /\ badgeCache' = badgeCache
             /\ leagues' = <<>> /\ searchTerm' = <<>> /\ selectedSport' = None
             /\ loading' = FALSE /\ error' = None
             /\ calls' = <<>>
     /\ \A id \in LeagueIds :
          (ev.op = "restart" /\ Truthy(badgeCache[id]) /\ IsInvocation(ev', id))
            => /\ ev'.op = "hit"
               /\ ev'.result = badgeCache[id]
               /\ ev'.fetches = 0
               /\ calls' = <<>>]_vars

C12_Witness ==
  /\ ev.op = "hit"
  /\ ev.after = "restart"
  /\ ev.result = badgeCache[ev.id]
  /\ Truthy(ev.result)
  /\ calls = <<>>


\* C13: overlapping fetchBadge calls for one id are not deduplicated and are
\* safe. A fetchBadge(id) invoked while another call for id is suspended and
\* the cache has no entry issues its own request; and when two such calls
\* complete one after the other with the same seasons response, the second
\* returns what the first returned and leaves the cache as the first left it,
\* whichever of the two was started first.
C13_OverlapSafe ==
  [][/\ \A id \in LeagueIds :
          (/\ IsInvocation(ev', id)
           /\ ~Truthy(badgeCache[id])
           /\ \E k \in 1..Len(calls) : calls[k].id = id)
            => /\ ev'.op = "miss"
               /\ ev'.fetches = 1
               /\ Len(calls') = Len(calls) + 1
     /\ (/\ ev.op = "resolve" /\ ev'.op = "resolve"
         /\ ev'.id = ev.id /\ ev'.response = ev.response)
          => /\ ev'.result = ev.result
             /\ badgeCache' = badgeCache]_vars

C13_Witness ==
  /\ ev.op = "resolve"
  /\ ev.again
  /\ Truthy(ev.result)
  /\ badgeCache[ev.id] = ev.result
  /\ returned[ev.id] = {Val(ev.result)}


\* the list a leagues response carries
ListIn(response) == IF IsSome(response) THEN Val(response) ELSE <<>>

\* C14: loads are last-write-wins. Whenever a fetchLeagues call completes
\* successfully, leagues becomes exactly the list of that call's response,
\* whatever leagues held before and whether or not a call started after it
\* has completed already: of two racing loads that both succeed, the one
\* that resolves last decides leagues, and nothing is merged.
C14_LastResolveWins ==
  [][ev'.op = "loadOk" => leagues' = ListIn(ev'.response)]_vars

C14_Witness ==
  /\ ev.op = "loadOk"
  /\ ev.stale
  /\ pendingLoads = <<>>
  /\ error = None
  /\ Len(leagues) = 1
  /\ leagues = ListIn(ev.response)


\* C15: there is no cancellation. Closing the badge modal leaves every
\* suspended fetchBadge call suspended and the cache alone; a call that
\* completes with a badge while the modal is closed still writes the badge
\* into the cache; and a fetchBadge invoked for an id that has an entry is a
\* hit.
C15_CloseDoesNotCancel ==
  [][/\ ev'.op = "close" => (calls' = calls /\ badgeCache' = badgeCache)
     /\ (ev'.op = "resolve" /\ ~card.showModal /\ ~NoBadgeIn(ev'.response))
          => /\ Truthy(badgeCache'[ev'.id])
             /\ badgeCache'[ev'.id] = ev'.result
     /\ \A id \in LeagueIds :
          (Truthy(badgeCache[id]) /\ IsInvocation(ev', id))
            => (ev'.op = "hit" /\ ev'.fetches = 0)]_vars

\* the modal was closed while the card's call was suspended, and the call
\* has completed since and written its badge
C15_Witness ==
  /\ ev.op = "resolve"
  /\ ev.id = CardId
  /\ ~card.showModal
  /\ ~card.badgeLoading
  /\ Truthy(ev.result)
  /\ badgeCache[CardId] = ev.result
  /\ card.badgeUrl = ev.result


\* C16 (as claimed): when the all-leagues fetch fails, then once that
\* fetchLeagues call has completed leagues is the empty sequence and error is
\* non-null, whatever the state before, a previously loaded non-empty list
\* included.
C16_FailureEmptiesLeagues ==
  [][ev'.op = "loadFail" => (leagues' = <<>> /\ IsSome(error'))]_vars

\* C16 (amended): when the all-leagues fetch fails, then once that
\* fetchLeagues call has completed error holds the failure's message (the
\* fallback text when what was raised is not an Error) and leagues is what it
\* was before the completion: empty if no load had succeeded, the previously
\* loaded list otherwise.
C16_FailureKeepsLeagues ==
  [][ev'.op = "loadFail"
       => /\ leagues' = leagues
          /\ error' = Some(IF ev'.raised.isError THEN ev'.raised.message
                                                 ELSE FailedToFetchLeagues)
          /\ Truthy(error')]_vars

C16_Witness ==
  /\ ev.op = "loadFail"
  /\ leagues # <<>>
  /\ error = Some(ev.raised.message)
  /\ pendingLoads = <<>>
  /\ ~loading

\* C17 (as claimed): a failure of the all-leagues fetch reaches the caller of
\* fetchLeagues unchanged: the call rejects with the very error the fetch
\* raised.
C17_FailurePropagates ==
  [][ev'.op = "loadFail" => ev'.thrown = ev'.raised]_vars

\* C17 (amended): a failure of the all-leagues fetch does not reach the
\* caller of fetchLeagues: the call completes without throwing, the failure
\* is recorded in error, loading is cleared, and no further request is made
\* (the call is over and no call is started).
C17_FailureRecordedNotThrown ==
  [][ev'.op = "loadFail"
       => /\ ev'.thrown = NoError
          /\ IsSome(error')
          /\ loading' = FALSE
          /\ ev'.fetches = 0
          /\ Len(pendingLoads') = Len(pendingLoads) - 1]_vars

C17_Witness ==
  /\ ev.op = "loadFail"
  /\ ev.raised.isError
  /\ ev.raised.status = 429
  /\ ev.thrown = NoError
  /\ ev.toasts = 1
  /\ IsSome(error)


Ascending(a, b) ==
  \E i \in 1..(Len(b)) :
    /\ \A j \in 1..(i - 1) : j <= Len(a) /\ a[j] = b[j]
    /\ \/ i = Len(a) + 1
       \/ i <= Len(a) /\ CodeUnit(a[i]) < CodeUnit(b[i])

\* availableSports lists exactly the non-empty strSport values of leagues,
\* each once, in ascending order
ExactSortedSports ==
  \A av \in {availableSports} :
    /\ {av[i] : i \in 1..Len(av)}
         = {leagues[j].strSport : j \in 1..Len(leagues)} \ {<<>>}
    /\ \A i, j \in 1..Len(av) : i # j => av[i] # av[j]
    /\ \A i \in 1..(Len(av) - 1) : Ascending(av[i], av[i + 1])

\* C19: in every state availableSports is exactly the set of the distinct
\* non-empty strSport values of the current leagues, without duplicates and
\* sorted ascending; and a step that changes searchTerm or selectedSport
\* leaves it as it was.
C19_AvailableSports ==
  /\ []ExactSortedSports
  /\ [][ev'.op \in {"setSearchTerm", "setSport"}
         => availableSports' = availableSports]_vars

\* two sports loaded in descending order, one filter input set since
C19_Witness ==
  /\ Len(leagues) = 2
  /\ leagues[1].strSport = <<"S">>
  /\ leagues[2].strSport = <<"B">>
  /\ availableSports = << <<"B">>, <<"S">> >>
  /\ selectedSport = Some(<<"S">>)
  /\ ev.op = "setSport"


\* C20: load idempotence. With searchTerm and selectedSport fixed, a
\* fetchLeagues completion that delivers the sequence leagues already holds
\* leaves leagues and filteredLeagues exactly as they were.
C20_LoadIdempotent ==
  [][(ev'.op = "loadOk" /\ ListIn(ev'.response) = leagues)
       => /\ leagues' = leagues
          /\ filteredLeagues' = filteredLeagues]_vars

\* a non-empty sequence was loaded a second time under a filter that keeps
\* some of it and drops some of it
C20_Witness ==
  /\ ev.op = "loadOk"
  /\ ev.again
  /\ leagues = ListIn(ev.response)
  /\ trim(searchTerm) # <<>>
  /\ filteredLeagues # <<>>
  /\ filteredLeagues # leagues


\* C21: a successful load replaces the whole list by the response, passed
\* through: afterwards leagues has the length of the response's list and the
\* same element at every position, leagues with the same id included, and
\* holds nothing else, whatever it held before.
C21_LoadPassesThrough ==
  [][(ev'.op = "loadOk" /\ IsSome(ev'.response))
       => /\ Len(leagues') = Len(Val(ev'.response))
          /\ \A i \in 1..Len(leagues') : leagues'[i] = Val(ev'.response)[i]]_vars

\* two different leagues with one id have been loaded, in the response's order
C21_Witness ==
  /\ ev.op = "loadOk"
  /\ Len(leagues) = 2
  /\ leagues[1].idLeague = leagues[2].idLeague
  /\ leagues[1].strLeague # leagues[2].strLeague
  /\ leagues = Val(ev.response)


UniqueById(ls) ==
  \A i, j \in 1..Len(ls) : i # j => ls[i].idLeague # ls[j].idLeague

\* C22 (as claimed): in every reachable state no two elements of leagues
\* have the same idLeague.
C22_UniqueById == UniqueById(leagues)

\* C22 (amended): leagues is unique by id exactly when the list of the
\* response that was loaded last is: a successful load leaves leagues unique
\* by id if the response's list is, and with two elements of one id if the
\* response's list has them.
C22_UniqueAsLoaded ==
  [][ev'.op = "loadOk"
       => (UniqueById(leagues') <=> UniqueById(ListIn(ev'.response)))]_vars

C22_Witness ==
  /\ ev.op = "loadOk"
  /\ Len(leagues) = 2
  /\ UniqueById(leagues)
  /\ UniqueById(ListIn(ev.response))
  /\ pendingLoads = <<>>


\* C23: a fetchBadge call for an id changes at most the entry of that id.
\* In every step of a fetchBadge call (the invocation, its completion with a
\* body, its failure), whatever other calls are suspended and whether or not
\* localStorage accepts the write, the cache entry of every other id is what
\* it was, and the stored entry of every other id is what it was or what the
\* cache already held for that id.
C23_OtherEntriesUntouched ==
  [][\A B \in LeagueIds :
       (ev'.op \in {"hit", "miss", "resolve", "reject"} /\ ev'.id # B)
         => /\ badgeCache'[B] = badgeCache[B]
            /\ stored'[B] \in {stored[B], badgeCache[B]}]_vars

\* a call for one id has written its badge while a call for the other id is
\* suspended, localStorage has refused the write, and the other id's entry
\* is in the cache as before
C23_Witness ==
  /\ ev.op = "resolve"
  /\ Truthy(ev.result)
  /\ badgeCache[ev.id] = ev.result
  /\ stored[ev.id] = None
  /\ \E B \in LeagueIds \ {ev.id} : Truthy(badgeCache[B]) /\ stored[B] = None
  /\ \E k \in 1..Len(calls) : calls[k].id # ev.id


\* the suffix '/medium' of the 500px variant
Medium == <<"/", "m">>

\* C24 (as claimed): on a cache miss that finds a badge, the URL fetchBadge
\* stores and returns is the upstream badge URL with '/medium' appended, not
\* the raw upstream URL.
C24_MediumAppended ==
  [][(ev'.op = "resolve" /\ ~NoBadgeIn(ev'.response))
       => \A raw \in {Val(Val(ev'.response)[Len(Val(ev'.response))].strBadge)} :
            /\ ev'.result = Some(raw \o Medium)
            /\ badgeCache'[ev'.id] = Some(raw \o Medium)]_vars


\* C25 (as claimed): a failed fetchLeagues or fetchBadge shows the rate-limit
\* toast exactly once when the failure is an HTTP 429 and never when it is a
\* failure of another kind.
C25_ToastIffRateLimited ==
  [][ev'.op \in {"loadFail", "reject"}
       => ev'.toasts = (IF ev'.raised.status = 429 THEN 1 ELSE 0)]_vars


\* C26 (as claimed): in every reachable state loading is true whenever at
\* least one fetchLeagues call is suspended at its await, and false when none
\* is, overlapping calls included.
C26_LoadingTracksInFlight == loading <=> (pendingLoads # <<>>)

\* C27 (as claimed): in every state where no fetchLeagues call is suspended,
\* error is non-null exactly when the fetchLeagues call that completed last
\* failed.
C27_ErrorOfLastCompleted ==
  (pendingLoads = <<>> /\ ev.op \in {"loadOk", "loadFail"})
    => (IsSome(error) <=> ev.op = "loadFail")


\* C28 (as claimed): once every handleCardClick call on the card has
\* completed, badgeLoading is false and badgeUrl and badgeError are those of
\* the call that was started last, whatever order the calls completed in.
C28_ModalShowsLatestClick ==
  (calls = <<>> /\ latestClick.state = "done")
    => /\ ~card.badgeLoading
       /\ card.badgeUrl = latestClick.url
       /\ card.badgeError = latestClick.error


C30_ResolversAgree ==
  [][/\ ev'.op = "resolve"
         => ev'.result = useLeagueBadge_fetchBadge(ev'.response).badge
     /\ ev'.op = "reject"
         => ev'.thrown = useLeagueBadge_thrown(ev'.raised)]_vars

====
